---- MODULE Spec2Model ----
(***************************************************************************)
(* Verification model of llm-router: the cost-aware routing policy         *)
(* (app/routing_policy.py, app/token_utils.py), the job store's dedupe     *)
(* path (app/models.py), the API's provider call with retry and fallback,  *)
(* its price table and its POST /route handler (api/main.py), and the      *)
(* queue worker (app/queue_worker.py).                                     *)
(*                                                                         *)
(* Money is modelled in integers.  A price is an integer number of price   *)
(* units per 1000 tokens, and a cost or a ceiling is the integer           *)
(* 1000 * (amount in price units), so that                                 *)
(*   (tin/1000.0)*price_in + (tout/1000.0)*price_out                       *)
(* becomes tin*price_in + tout*price_out without any division.             *)
(***************************************************************************)
EXTENDS Integers, Sequences, FiniteSets, TLC

VARIABLES
    price_rows,   \* RoutingPolicy.price_rows: the catalog, in file order
    request,      \* arguments of the latest RoutingPolicy.choose_model call
    outcome,      \* what that call did: returned a RouteDecision or raised
    jobs,         \* the committed rows of table jobs
    sess,         \* per database session: the upsert call running in it
    clock,        \* datetime.utcnow(), as a count of readings
    next_id,      \* stands for uuid4(): the next job_id never handed out before
    calls,        \* upsert_job_by_dedupe_key calls begun so far
    call,         \* the call_ollama invocation in progress
    est,          \* a token estimate: its arguments and what came back
    boot,         \* the price catalog file and what each reader made of it
    queue,        \* router_jobs: per job_id, the messages ready for delivery
    worker,       \* per consumer: the _handle_message run in progress
    job_costs,    \* the committed rows of table job_costs, in insert order
    deliveries,   \* messages handed to a consumer so far
    crashes,      \* worker processes lost so far
    pipe,         \* the POST /route request being handled
    sel,          \* a choose_model(quality_floor, integration_kind) call
    limiter,      \* the RateLimiter, the wall clock and the calls it answered
    adapter       \* a ProviderAdapter.complete call and the upstream it meets

routeVars == <<price_rows, request, outcome>>
storeVars == <<jobs, sess, clock, next_id, calls>>
workerVars == <<queue, worker, job_costs, deliveries, crashes>>
utilVars == <<sel, limiter, adapter>>
restVars == <<est, boot, workerVars, pipe, utilVars>>
vars == <<price_rows, request, outcome, jobs, sess, clock, next_id, calls, call,
          est, boot, queue, worker, job_costs, deliveries, crashes, pipe,
          sel, limiter, adapter>>

Max(a, b) == IF a >= b THEN a ELSE b

(***************************************************************************)
(* Inputs of the routing policy.                                           *)
(***************************************************************************)
MaxRows == 2

\* (provider, model) pairs a catalog row may name
ProviderModels == { <<"ollama", "tiny">>, <<"openai", "big">> }

\* (price_in_per_1k, price_out_per_1k): a free row and a paid row
Prices == { <<0, 0>>, <<2, 1>> }

\* (max_input_tokens, max_output_tokens): a one-token window and a wide one
Limits == { <<1, 1>>, <<100, 100>> }

Qualities == {1, 2}

ModelRow ==
    { [provider |-> pm[1], model |-> pm[2],
       price_in_per_1k |-> pr[1], price_out_per_1k |-> pr[2],
       max_input_tokens |-> lim[1], max_output_tokens |-> lim[2],
       baseline_quality |-> q] :
         pm \in ProviderModels, pr \in Prices, lim \in Limits, q \in Qualities }

Catalogs == UNION { [1..n -> ModelRow] : n \in 0..MaxRows }

\* A prompt is its length in characters and what tiktoken's o200k_base
\* encoder makes of it: the number of tokens, or -1 when the encoder raises.
Prompts ==
    { [chars |-> 0, o200k |-> 0],
      [chars |-> 4, o200k |-> 2],
      [chars |-> 8, o200k |-> 2],
      [chars |-> 8, o200k |-> -1] }

ExpectedOut == {1, 2}
QualityFloors == {1, 2, 3}
CostCeilings == {-1, 0, 3}

\* provider_hints: "" stands for a key that is absent (or falsy)
ProviderHints ==
    { [provider |-> p, model |-> m] : p \in {"", "openai"}, m \in {"", "tiny"} }

Requests ==
    [input_text : Prompts, expected_output_tokens : ExpectedOut,
     quality_floor : QualityFloors, cost_ceiling_usd : CostCeilings,
     provider_hints : ProviderHints]

(***************************************************************************)
(* app/token_utils.py                                                      *)
(***************************************************************************)
approx_tokens(text) ==
    IF text.chars = 0 THEN 0 ELSE Max(1, text.chars \div 4)

count_tokens_openai(prompt) ==
    IF prompt.o200k >= 0 THEN prompt.o200k ELSE approx_tokens(prompt)

estimate_tokens(provider, model, prompt, expected_output_tokens) ==
    [tokens_in  |-> IF provider = "openai"
                      THEN count_tokens_openai(prompt)
                      ELSE approx_tokens(prompt),
     tokens_out |-> expected_output_tokens]

(***************************************************************************)
(* app/routing_policy.py: RoutingPolicy.choose_model                       *)
(***************************************************************************)
\* settings.DEFAULT_SYSTEM_PROMPT
DEFAULT_SYSTEM_PROMPT ==
    "You are a helpful assistant. Keep answers clear and concise."

EstimatedCost(row, tokens) ==
    tokens.tokens_in * row.price_in_per_1k
        + tokens.tokens_out * row.price_out_per_1k

\* KeepRow with one gate of the loop body left out
KeepRowNoQualityGate(row, rq) ==
    LET tokens == estimate_tokens(row.provider, row.model, rq.input_text,
                                  rq.expected_output_tokens)
        cost   == EstimatedCost(row, tokens)
    IN  /\ ~(rq.provider_hints.provider # ""
               /\ row.provider # rq.provider_hints.provider)
        /\ ~(rq.provider_hints.model # ""
               /\ row.model # rq.provider_hints.model)
        /\ ~(tokens.tokens_in > row.max_input_tokens)
        /\ ~(tokens.tokens_out > row.max_output_tokens)
        /\ ~(rq.cost_ceiling_usd > 0 /\ cost > rq.cost_ceiling_usd)

\* KeepRow reading a ceiling of zero or less as a cap of zero
KeepRowZeroIsACap(row, rq) ==
    LET tokens == estimate_tokens(row.provider, row.model, rq.input_text,
                                  rq.expected_output_tokens)
        cost   == EstimatedCost(row, tokens)
    IN  /\ ~(rq.provider_hints.provider # ""
               /\ row.provider # rq.provider_hints.provider)
        /\ ~(rq.provider_hints.model # ""
               /\ row.model # rq.provider_hints.model)
        /\ ~(row.baseline_quality < rq.quality_floor)
        /\ ~(tokens.tokens_in > row.max_input_tokens)
        /\ ~(tokens.tokens_out > row.max_output_tokens)
        /\ ~(cost > rq.cost_ceiling_usd)

\* KeepRow checking the output limit only
KeepRowNoInputLimit(row, rq) ==
    LET tokens == estimate_tokens(row.provider, row.model, rq.input_text,
                                  rq.expected_output_tokens)
        cost   == EstimatedCost(row, tokens)
    IN  /\ ~(rq.provider_hints.provider # ""
               /\ row.provider # rq.provider_hints.provider)
        /\ ~(rq.provider_hints.model # ""
               /\ row.model # rq.provider_hints.model)
        /\ ~(row.baseline_quality < rq.quality_floor)
        /\ ~(tokens.tokens_out > row.max_output_tokens)
        /\ ~(rq.cost_ceiling_usd > 0 /\ cost > rq.cost_ceiling_usd)

\* KeepRow ignoring the model hint
KeepRowNoModelHint(row, rq) ==
    LET tokens == estimate_tokens(row.provider, row.model, rq.input_text,
                                  rq.expected_output_tokens)
        cost   == EstimatedCost(row, tokens)
    IN  /\ ~(rq.provider_hints.provider # ""
               /\ row.provider # rq.provider_hints.provider)
        /\ ~(row.baseline_quality < rq.quality_floor)
        /\ ~(tokens.tokens_in > row.max_input_tokens)
        /\ ~(tokens.tokens_out > row.max_output_tokens)
        /\ ~(rq.cost_ceiling_usd > 0 /\ cost > rq.cost_ceiling_usd)

\* The loop body's gates: TRUE when the row reaches candidates.append
KeepRow(row, rq) ==
    LET tokens == estimate_tokens(row.provider, row.model, rq.input_text,
                                  rq.expected_output_tokens)
        cost   == EstimatedCost(row, tokens)
    IN  /\ ~(rq.provider_hints.provider # ""
               /\ row.provider # rq.provider_hints.provider)
        /\ ~(rq.provider_hints.model # ""
               /\ row.model # rq.provider_hints.model)
        /\ ~(row.baseline_quality < rq.quality_floor)
        /\ ~(tokens.tokens_in > row.max_input_tokens)
        /\ ~(tokens.tokens_out > row.max_output_tokens)
        /\ ~(rq.cost_ceiling_usd > 0 /\ cost > rq.cost_ceiling_usd)

\* One candidates entry (row, cost, tokens); idx remembers the catalog position
Candidate(rows, i, rq) ==
    LET tokens == estimate_tokens(rows[i].provider, rows[i].model,
                                  rq.input_text, rq.expected_output_tokens)
    IN  [row |-> rows[i], idx |-> i,
         cost |-> EstimatedCost(rows[i], tokens), tokens |-> tokens]

\* The for loop: candidates in catalog order
Candidates(rows, rq) ==
    LET F[i \in 0..Len(rows)] ==
            IF i = 0 THEN << >>
            ELSE IF KeepRow(rows[i], rq)
                   THEN Append(F[i - 1], Candidate(rows, i, rq))
                   ELSE F[i - 1]
    IN  F[Len(rows)]

\* InsertByCost of an unstable sort: an element goes in front of its equals
InsertByCostUnstable(sorted, c) ==
    LET before == SelectSeq(sorted, LAMBDA x : x.cost < c.cost)
        after  == SelectSeq(sorted, LAMBDA x : x.cost >= c.cost)
    IN  before \o <<c>> \o after

\* list.sort(key=cost) is stable: an element goes behind every element of
\* the sorted prefix whose key is <= its own
InsertByCost(sorted, c) ==
    LET before == SelectSeq(sorted, LAMBDA x : x.cost <= c.cost)
        after  == SelectSeq(sorted, LAMBDA x : x.cost > c.cost)
    IN  before \o <<c>> \o after

\* SortByCost that leaves the candidates in catalog order
SortByCostSkipped(cands) == cands

SortByCost(cands) ==
    LET F[i \in 0..Len(cands)] ==
            IF i = 0 THEN << >> ELSE InsertByCost(F[i - 1], cands[i])
    IN  F[Len(cands)]

\* choose_model without the empty-candidates check: a null decision
choose_model_null(rows, rq) ==
    LET candidates == Candidates(rows, rq)
        best       == SortByCost(candidates)[1]
    IN  IF candidates = << >>
          THEN [kind |-> "return", decision |-> "None",
                candidates |-> candidates]
          ELSE [kind |-> "return",
                decision |-> [provider |-> best.row.provider,
                              model |-> best.row.model,
                              estimated_cost_usd |-> best.cost,
                              system_prompt |-> DEFAULT_SYSTEM_PROMPT,
                              temperature |-> "0.2",
                              cache_hit |-> FALSE,
                              tokens |-> best.tokens],
                row |-> best.row, idx |-> best.idx,
                candidates |-> candidates]

choose_model(rows, rq) ==
    LET candidates == Candidates(rows, rq)
        best       == SortByCost(candidates)[1]
    IN  IF candidates = << >>
          THEN [kind |-> "raise", error |-> "ValueError",
                candidates |-> candidates]
          ELSE [kind |-> "return",
                decision |-> [provider |-> best.row.provider,
                              model |-> best.row.model,
                              estimated_cost_usd |-> best.cost,
                              system_prompt |-> DEFAULT_SYSTEM_PROMPT,
                              temperature |-> "0.2",
                              cache_hit |-> FALSE,
                              tokens |-> best.tokens],
                row |-> best.row, idx |-> best.idx,
                candidates |-> candidates]

NoCall == [kind |-> "none"]
NoRequest == [input_text |-> [chars |-> 0, o200k |-> 0],
              expected_output_tokens |-> 1, quality_floor |-> 1,
              cost_ceiling_usd |-> 0,
              provider_hints |-> [provider |-> "", model |-> ""]]

(***************************************************************************)
(* app/models.py: table jobs and upsert_job_by_dedupe_key.                 *)
(* A session reads the committed rows (and its own flushed ones); what it  *)
(* flushes reaches the table when its caller commits.  Column dedupe_key   *)
(* carries no unique constraint.                                           *)
(***************************************************************************)
MaxCalls == 3

Sessions == {"s1", "s2"}

\* dedupe_key arguments; "" stands for None or the empty string (both falsy)
DedupeKeys == {"", "k1", "k2"}

\* the caller's columns of the defaults object: Job(user_id=..., task_type=...,
\* cost_ceiling_usd=...)
JobDefaults ==
    { [user_id |-> "u1", task_type |-> "chat", cost_ceiling_usd |-> 0],
      [user_id |-> "u2", task_type |-> "summarize", cost_ceiling_usd |-> 1] }

NoDefaults == [user_id |-> "", task_type |-> "", cost_ceiling_usd |-> 0]

\* job and ret hold a job_id in a set: {} stands for None
IdleSession ==
    [pc |-> "idle", dedupe_key |-> "", defaults |-> NoDefaults, job |-> {},
     inserted |-> {}, touched |-> {}, ret |-> {}, error |-> ""]

\* SelectByDedupeKey comparing the wrong column: it matches nothing
SelectByStatus(rows, dedupe_key) ==
    { j \in rows : j.status = dedupe_key }

\* select(Job).where(Job.dedupe_key == dedupe_key)
SelectByDedupeKey(rows, dedupe_key) ==
    { j \in rows : j.dedupe_key = dedupe_key }

\* the defaults object with its column defaults, applied by the INSERT
NewJob(id, defaults, dedupe_key, now) ==
    [job_id |-> id, user_id |-> defaults.user_id,
     task_type |-> defaults.task_type, status |-> "queued",
     created_at |-> now, updated_at |-> now,
     cost_ceiling_usd |-> defaults.cost_ceiling_usd,
     dedupe_key |-> dedupe_key]

\* an update that also rewrites created_at
TouchedRowRestamped(j, now) ==
    [j EXCEPT !.updated_at = now, !.created_at = now]

\* job.updated_at = datetime.utcnow(): the UPDATE sets that column only
TouchedRow(j, now) ==
    [j EXCEPT !.updated_at = now]

\* A caller opens a session and calls upsert_job_by_dedupe_key(session,
\* dedupe_key, defaults), defaults carrying the same dedupe_key.
\* "if not dedupe_key" sends a falsy key straight to the insert.
BeginUpsert(s) ==
    \E k \in DedupeKeys, d \in JobDefaults :
        /\ sess[s].pc \in {"idle", "done", "raised"}
        /\ calls < MaxCalls
        /\ calls' = calls + 1
        /\ sess' = [sess EXCEPT ![s] =
                      [IdleSession EXCEPT !.pc = IF k = "" THEN "insert" ELSE "select",
                                          !.dedupe_key = k,
                                          !.defaults = d]]
        /\ UNCHANGED <<jobs, clock, next_id, routeVars, call, restVars>>

\* session.execute(select ...) and scalar_one_or_none(): None, the one row,
\* or MultipleResultsFound
SelectJob(s) ==
    /\ sess[s].pc = "select"
    /\ LET found == SelectByDedupeKey(jobs, sess[s].dedupe_key)
       IN  sess' = [sess EXCEPT ![s] =
              IF Cardinality(found) > 1
                THEN [@ EXCEPT !.pc = "raised", !.error = "MultipleResultsFound"]
              ELSE IF found = {}
                THEN [@ EXCEPT !.pc = "insert"]
              ELSE [@ EXCEPT !.pc = "touch",
                             !.job = { j.job_id : j \in found }]]
    /\ UNCHANGED <<jobs, clock, next_id, calls, routeVars, call, restVars>>

\* if job: job.updated_at = utcnow(); session.add(job); flush; return job
TouchJob(s) ==
    /\ sess[s].pc = "touch"
    /\ clock' = clock + 1
    /\ sess' = [sess EXCEPT ![s] =
                  [@ EXCEPT !.pc = "commit",
                            !.touched = { <<id, clock'>> : id \in sess[s].job },
                            !.ret = sess[s].job]]
    /\ UNCHANGED <<jobs, next_id, calls, routeVars, call, restVars>>

\* session.add(defaults); flush; return defaults
InsertJob(s) ==
    /\ sess[s].pc = "insert"
    /\ clock' = clock + 1
    /\ next_id' = next_id + 1
    /\ sess' = [sess EXCEPT ![s] =
                  [@ EXCEPT !.pc = "commit",
                            !.inserted = { NewJob(next_id, sess[s].defaults,
                                                  sess[s].dedupe_key, clock') },
                            !.ret = {next_id}]]
    /\ UNCHANGED <<jobs, calls, routeVars, call, restVars>>

\* the caller's session.commit(): the flushed insert and update take effect
CommitSession(s) ==
    /\ sess[s].pc = "commit"
    /\ jobs' = { IF \E t \in sess[s].touched : t[1] = j.job_id
                   THEN TouchedRow(j,
                           (CHOOSE t \in sess[s].touched : t[1] = j.job_id)[2])
                   ELSE j : j \in jobs }
               \cup sess[s].inserted
    /\ sess' = [sess EXCEPT ![s] = [@ EXCEPT !.pc = "done"]]
    /\ UNCHANGED <<clock, next_id, calls, routeVars, call, restVars>>

\* no other session is in the middle of a call
Alone(s) ==
    \A t \in Sessions \ {s} : sess[t].pc \in {"idle", "done", "raised"}

(***************************************************************************)
(* api/main.py: call_ollama                                                *)
(***************************************************************************)
RETRIES == 2
\* policy.retry.max_attempts of the price table (the built-in default)
max_attempts == 2
MODEL_TRIAGE_PRIMARY == "phi3:mini"
MODEL_TRIAGE_FALLBACK == "tinyllama"

\* what one POST /api/generate can come to
Responses ==
    {"ok", "timeout", "connect_error", "http_429", "http_5xx", "http_4xx",
     "bad_json"}

\* httpx.ReadTimeout, httpx.ConnectTimeout and every other httpx.HTTPError,
\* HTTPStatusError of raise_for_status included
IsHTTPError(r) ==
    r \in {"timeout", "connect_error", "http_429", "http_5xx", "http_4xx"}

NoOllamaCall ==
    [pc |-> "idle", model |-> "", retries |-> 0, attempt |-> 0,
     log |-> << >>, result |-> ""]

\* route calls call_ollama(model, prompt, timeout) with the default retries,
\* warmup with retries=0; model comes from choose_model(quality_floor, kind)
StartCall ==
    \E m \in {MODEL_TRIAGE_PRIMARY, "tinyllama"}, n \in {0, RETRIES} :
        /\ call.pc = "idle"
        /\ call' = [NoOllamaCall EXCEPT !.pc = "primary", !.model = m,
                                        !.retries = n]
        /\ UNCHANGED <<routeVars, storeVars, restVars>>

\* one pass of "for attempt in range(retries + 1)", up to the fallback
PrimaryRequest ==
    \E r \in Responses :
        /\ call.pc = "primary"
        /\ LET sent == [call EXCEPT !.log = Append(@, <<call.model, r>>)]
           IN  call' =
                 IF r = "ok"
                   THEN [sent EXCEPT !.pc = "done", !.result = "response"]
                 ELSE IF ~IsHTTPError(r)
                   THEN [sent EXCEPT !.pc = "done", !.result = "ValueError"]
                 ELSE IF call.attempt < call.retries
                   THEN [sent EXCEPT !.attempt = @ + 1]
                 ELSE IF call.model = MODEL_TRIAGE_PRIMARY
                           /\ MODEL_TRIAGE_FALLBACK # ""
                   THEN [sent EXCEPT !.pc = "fallback"]
                 ELSE [sent EXCEPT !.pc = "done",
                                   !.result = "HTTPException 502"]
        /\ UNCHANGED <<routeVars, storeVars, restVars>>

\* the one request against MODEL_TRIAGE_FALLBACK; except Exception
FallbackRequest ==
    \E r \in Responses :
        /\ call.pc = "fallback"
        /\ LET sent == [call EXCEPT !.log = Append(@, <<MODEL_TRIAGE_FALLBACK, r>>)]
           IN  call' =
                 IF r = "ok"
                   THEN [sent EXCEPT !.pc = "done", !.result = "response"]
                   ELSE [sent EXCEPT !.pc = "done",
                                     !.result = "HTTPException 502"]
        /\ UNCHANGED <<routeVars, storeVars, restVars>>

(***************************************************************************)
(* The two token estimators: app/token_utils.py estimate_tokens, used by   *)
(* RoutingPolicy, and api/main.py _estimate_tokens, used by                *)
(* _pick_model_by_policy.                                                  *)
(***************************************************************************)
MaxChars == 8
MaxExpectedOut == 3

\* the heuristic has no tokenizer for these; "openai" has tiktoken
Providers == {"ollama", "anthropic", "openai"}

\* a prompt text by its length and its o200k_base token count (-1 when
\* tiktoken raises); an encoding has a token for every three characters here
TokenPrompts ==
    UNION { { [chars |-> c, o200k |-> t] : t \in {-1, (c + 2) \div 3} } :
              c \in 0..MaxChars }

\* RouteRequest.expected_output_tokens is a plain int: no lower bound
ExpectedOutputTokens == (0 - 2)..MaxExpectedOut

_chars_to_tokens(chars) == Max(1, chars \div 4)

_estimate_tokens(prompt, expected_out_tokens) ==
    [ptoks |-> _chars_to_tokens(prompt.chars),
     otoks |-> Max(1, expected_out_tokens)]

NoEstimate ==
    [pc |-> "idle", provider |-> "", prompt |-> [chars |-> 0, o200k |-> 0],
     expected_output_tokens |-> 0,
     stats |-> [tokens_in |-> 0, tokens_out |-> 0],
     api |-> [ptoks |-> 0, otoks |-> 0]]

\* both estimators applied to the same prompt and expected output length
EstimateTokens ==
    /\ est.pc = "args"
    /\ est' = [est EXCEPT
                 !.pc = "done",
                 !.stats = estimate_tokens(est.provider, "m", est.prompt,
                                           est.expected_output_tokens),
                 !.api = _estimate_tokens(est.prompt,
                                          est.expected_output_tokens)]
    /\ UNCHANGED <<routeVars, storeVars, call, boot, workerVars, pipe, utilVars>>

(***************************************************************************)
(* The price catalog on disk and its two readers: api/main.py              *)
(* (_load_price_table, _pick_model_by_policy) and RoutingPolicy.__init__.  *)
(***************************************************************************)
\* the file at PRICE_TABLE_PATH: absent, or a document whose "models" list
\* may be empty (an empty file loads as no rows as well)
CatalogFiles ==
    { [exists |-> FALSE, models |-> << >>] }
        \cup { [exists |-> TRUE, models |-> c] : c \in Catalogs }

\* providers for which an API key is set in the environment
KeySets == SUBSET {"openai"}

\* what the API and the worker pass on from one request
BootRequests ==
    { r \in Requests : /\ r.provider_hints = [provider |-> "", model |-> ""]
                       /\ r.cost_ceiling_usd = 0 }

\* _MODELS: FileNotFoundError gives the built-in table with "models": []
_load_price_table(file) ==
    IF file.exists THEN file.models ELSE << >>

_has_key_for(provider, keys) == provider \in keys

\* step 1 of _pick_model_by_policy: (est, m) for each viable row, in order
ViableModels(models, keys, in_toks, out_toks, quality_floor) ==
    LET F[i \in 0..Len(models)] ==
            IF i = 0 THEN << >>
            ELSE IF models[i].baseline_quality < quality_floor
                   THEN F[i - 1]
            ELSE IF models[i].provider # "ollama"
                       /\ ~_has_key_for(models[i].provider, keys)
                   THEN F[i - 1]
            ELSE Append(F[i - 1],
                        [cost |-> in_toks * models[i].price_in_per_1k
                                    + out_toks * models[i].price_out_per_1k,
                         row |-> models[i], idx |-> i])
    IN  F[Len(models)]

_pick_model_by_policy(models, keys, prompt, expected_out_tokens, quality_floor) ==
    LET toks      == _estimate_tokens(prompt, expected_out_tokens)
        viable    == ViableModels(models, keys, toks.ptoks, toks.otoks,
                                  quality_floor)
        fallbacks == SelectSeq(models, LAMBDA m : m.provider = "ollama")
    IN  IF viable = << >>
          THEN IF fallbacks # << >>
                 THEN fallbacks[1]
                 ELSE [provider |-> "ollama", model |-> "tinyllama",
                       baseline_quality |-> 2]
          ELSE SortByCost(viable)[1].row

\* RoutingPolicy(): open() is not guarded
RoutingPolicyInit(file) ==
    IF file.exists
      THEN [kind |-> "ok", price_rows |-> file.models]
      ELSE [kind |-> "raise", error |-> "FileNotFoundError"]

NoBoot ==
    [pc |-> "idle", file |-> [exists |-> FALSE, models |-> << >>],
     keys |-> {}, rq |-> NoRequest, MODELS |-> << >>,
     planned |-> [provider |-> "", model |-> ""],
     policy |-> [kind |-> "none"], decision |-> NoCall]

\* import of api.main: _PRICE_TABLE = _load_price_table()
LoadPriceTable ==
    /\ boot.pc = "start"
    /\ boot' = [boot EXCEPT !.pc = "loaded",
                            !.MODELS = _load_price_table(boot.file)]
    /\ UNCHANGED <<routeVars, storeVars, call, est, workerVars, pipe, utilVars>>

\* route: planned = _pick_model_by_policy(prompt, expected, floor)
PickModelByPolicy ==
    /\ boot.pc = "loaded"
    /\ boot' = [boot EXCEPT
                  !.pc = "picked",
                  !.planned = _pick_model_by_policy(
                                  boot.MODELS, boot.keys, boot.rq.input_text,
                                  boot.rq.expected_output_tokens,
                                  boot.rq.quality_floor)]
    /\ UNCHANGED <<routeVars, storeVars, call, est, workerVars, pipe, utilVars>>

\* the worker: policy = RoutingPolicy()
ConstructRoutingPolicy ==
    /\ boot.pc = "picked"
    /\ LET policy == RoutingPolicyInit(boot.file)
       IN  boot' = [boot EXCEPT
                      !.pc = IF policy.kind = "ok" THEN "constructed"
                                                   ELSE "failed",
                      !.policy = policy]
    /\ UNCHANGED <<routeVars, storeVars, call, est, workerVars, pipe, utilVars>>

\* the worker: decision = await policy.choose_model(...)
PolicyChooseModel ==
    /\ boot.pc = "constructed"
    /\ boot' = [boot EXCEPT
                  !.pc = "chosen",
                  !.decision = choose_model(boot.policy.price_rows, boot.rq)]
    /\ UNCHANGED <<routeVars, storeVars, call, est, workerVars, pipe, utilVars>>

(***************************************************************************)
(* app/queue_worker.py: _handle_message, over the jobs and job_costs       *)
(* tables and the broker's queue.                                          *)
(***************************************************************************)
MaxDeliveries == 3
MaxCrashes == 1

Workers == {"w1", "w2"}

\* job_id 1 is in table jobs, job_id 2 is not
MessageJobIds == {1, 2}

\* what adapter.complete can come to: (text, TokenStats), or the exception
\* of a timeout, of raise_for_status, or of a missing API key
AdapterOutcomes ==
    {"ok", "httpx.ReadTimeout", "httpx.HTTPStatusError", "RuntimeError"}

\* the catalogs a worker may find at PRICE_TABLE_PATH
WorkerCatalogs == { c \in Catalogs : Len(c) <= 1 }

IdleWorker ==
    [pc |-> "idle", job_id |-> 0, decision |-> [provider |-> "", model |-> ""],
     error |-> ""]

SetStatus(rows, job_id, status) ==
    { IF j.job_id = job_id THEN [j EXCEPT !.status = status] ELSE j :
        j \in rows }

\* the broker hands a ready message to a consumer
Deliver(w) ==
    \E j \in MessageJobIds :
        /\ worker[w].pc = "idle"
        /\ queue[j] > 0
        /\ deliveries < MaxDeliveries
        /\ queue' = [queue EXCEPT ![j] = @ - 1]
        /\ worker' = [worker EXCEPT ![w] = [IdleWorker EXCEPT
                                              !.pc = "received",
                                              !.job_id = j]]
        /\ deliveries' = deliveries + 1
        /\ UNCHANGED <<job_costs, crashes, routeVars, storeVars, call, est,
                       boot, pipe, utilVars>>

\* "Mark job as running": get_job_by_id, job.status = running, commit;
\* a job_id missing from the table ends the handler
MarkRunning(w) ==
    /\ worker[w].pc = "received"
    /\ IF \E j \in jobs : j.job_id = worker[w].job_id
         THEN /\ jobs' = SetStatus(jobs, worker[w].job_id, "running")
              /\ worker' = [worker EXCEPT ![w].pc = "route"]
         ELSE /\ jobs' = jobs
              /\ worker' = [worker EXCEPT ![w].pc = "ack"]
    /\ UNCHANGED <<queue, job_costs, deliveries, crashes, routeVars, sess,
                   clock, next_id, calls, call, est, boot, pipe, utilVars>>

\* "Choose a model": RoutingPolicy() and policy.choose_model on the payload
WorkerChooseModel(w) ==
    \E rows \in WorkerCatalogs, rq \in BootRequests :
        /\ worker[w].pc = "route"
        /\ LET chosen == choose_model(rows, rq)
           IN  worker' =
                 IF chosen.kind = "return"
                   THEN [worker EXCEPT
                           ![w].pc = "call",
                           ![w].decision =
                               [provider |-> chosen.decision.provider,
                                model |-> chosen.decision.model]]
                   ELSE [worker EXCEPT ![w].pc = "raising",
                                       ![w].error = chosen.error]
        /\ UNCHANGED <<queue, job_costs, deliveries, crashes, routeVars,
                       storeVars, call, est, boot, pipe, utilVars>>

\* "Call the provider": one adapter.complete, nothing around it
AdapterComplete(w) ==
    \E r \in AdapterOutcomes :
        /\ worker[w].pc = "call"
        /\ worker' = IF r = "ok"
                       THEN [worker EXCEPT ![w].pc = "record"]
                       ELSE [worker EXCEPT ![w].pc = "raising",
                                           ![w].error = r]
        /\ UNCHANGED <<queue, job_costs, deliveries, crashes, routeVars,
                       storeVars, call, est, boot, pipe, utilVars>>

\* "Record cost + status": status = succeeded, record_cost, commit
RecordSuccess(w) ==
    /\ worker[w].pc = "record"
    /\ IF \E j \in jobs : j.job_id = worker[w].job_id
         THEN /\ jobs' = SetStatus(jobs, worker[w].job_id, "succeeded")
              /\ job_costs' = Append(job_costs,
                                     [job_id |-> worker[w].job_id,
                                      provider |-> worker[w].decision.provider,
                                      model |-> worker[w].decision.model])
         ELSE UNCHANGED <<jobs, job_costs>>
    /\ worker' = [worker EXCEPT ![w].pc = "ack"]
    /\ UNCHANGED <<queue, deliveries, crashes, routeVars, sess, clock,
                   next_id, calls, call, est, boot, pipe, utilVars>>

\* message.process exits normally: the message is acknowledged
AckMessage(w) ==
    /\ worker[w].pc = "ack"
    /\ worker' = [worker EXCEPT ![w] = IdleWorker]
    /\ UNCHANGED <<queue, job_costs, deliveries, crashes, routeVars,
                   storeVars, call, est, boot, pipe, utilVars>>

\* a handler whose exception acknowledges the message
NackDrop(w) ==
    /\ worker[w].pc = "raising"
    /\ worker' = [worker EXCEPT ![w] = IdleWorker]
    /\ UNCHANGED <<queue, job_costs, deliveries, crashes, routeVars,
                   storeVars, call, est, boot, pipe, utilVars>>

\* message.process(requeue=True) exits on an exception: the message goes
\* back to the queue and nothing is written to the job
NackRequeue(w) ==
    /\ worker[w].pc = "raising"
    /\ queue' = [queue EXCEPT ![worker[w].job_id] = @ + 1]
    /\ worker' = [worker EXCEPT ![w] = IdleWorker]
    /\ UNCHANGED <<job_costs, deliveries, crashes, routeVars, storeVars,
                   call, est, boot, pipe, utilVars>>

\* the worker process dies with a message unacknowledged: the broker
\* makes the message ready again
Crash(w) ==
    /\ worker[w].pc # "idle"
    /\ crashes < MaxCrashes
    /\ queue' = [queue EXCEPT ![worker[w].job_id] = @ + 1]
    /\ worker' = [worker EXCEPT ![w] = IdleWorker]
    /\ crashes' = crashes + 1
    /\ UNCHANGED <<job_costs, deliveries, routeVars, storeVars, call, est,
                   boot, pipe, utilVars>>

(***************************************************************************)
(* api/main.py: POST /route.  An optional string is a set: {} for None,    *)
(* {t} for the string t.                                                   *)
(***************************************************************************)
\* req.integration.kind, one for each shape of prefetch and dispatch branch;
\* "none" stands for a request without an integration
IntegrationKinds ==
    {"none", "ms.mail_triage", "g.gmail_summarize", "pd.stalled_report",
     "g.docs_create", "g.gmail_draft_reply",
     "zoho.resume_summarize_prefetch", "unknown.kind"}

\* what a call to an integration collaborator comes to; "n/a": not called
CollaboratorResults == {"text", "empty", "raise"}

NO_GMAIL_MESSAGES == "(no Gmail messages found)"

Truthy(opt) == opt # {} /\ opt # {""}

\* the string a collaborator hands back
Fetched(result) == IF result = "text" THEN {"context"} ELSE {""}

_prefetch_context_swallowing(kind, flexible, fetched) ==
    [kind |-> "return", value |-> {}]

\* flexible: _gmail_fetch_newest_thread_flexible; fetched: the kind's own
\* prefetch function (for Gmail, the direct API fetch)
_prefetch_context(kind, flexible, fetched) ==
    IF kind \in {"ms.mail_triage", "pd.stalled_report"}
      THEN IF fetched = "raise"
             THEN [kind |-> "raise", error |-> "HTTPException 502"]
             ELSE [kind |-> "return", value |-> Fetched(fetched)]
    ELSE IF kind = "g.gmail_summarize"
      THEN IF flexible = "text"
             THEN [kind |-> "return", value |-> {"context"}]
           ELSE IF fetched = "raise"
             THEN [kind |-> "raise", error |-> "HTTPException 502"]
           ELSE IF fetched = "text"
             THEN [kind |-> "return", value |-> {"context"}]
           ELSE [kind |-> "return", value |-> {NO_GMAIL_MESSAGES}]
    ELSE IF kind = "zoho.resume_summarize_prefetch"
      THEN IF fetched = "raise"
             THEN [kind |-> "raise", error |-> "Exception"]
             ELSE [kind |-> "return", value |-> Fetched(fetched)]
    ELSE [kind |-> "return", value |-> {}]

\* which collaborators _prefetch_context calls for a kind
CallsFlexible(kind) == kind = "g.gmail_summarize"
CallsFetch(kind, flexible) ==
    \/ kind \in {"ms.mail_triage", "pd.stalled_report",
                 "zoho.resume_summarize_prefetch"}
    \/ kind = "g.gmail_summarize" /\ flexible # "text"

\* req.prompt
UserPrompt == [template |-> "user", context |-> "", chars |-> 4]

\* the builders put the context and the user's prompt into a template
BuildPrompt(template, context) ==
    [template |-> template, context |-> context,
     chars |-> UserPrompt.chars + 8
                 + (IF context = "context" THEN 8 ELSE 4)]

\* route: prompt = req.prompt, rewritten when the prefetch gave something
route_prompt(kind, pre) ==
    LET context == CHOOSE c \in pre : TRUE
    IN  IF ~Truthy(pre) THEN UserPrompt
        ELSE IF kind = "ms.mail_triage"
          THEN BuildPrompt("_build_triage_prompt", context)
        ELSE IF kind = "g.gmail_summarize"
          THEN BuildPrompt("_build_gmail_summary_prompt", context)
        ELSE BuildPrompt("=== USER REQUEST ===", context)

\* the floor decides before the kind is looked at
api_choose_model_floor_first(quality_floor, integration_kind) ==
    IF quality_floor <= 2 THEN "tinyllama"
    ELSE IF integration_kind \in {"ms.mail_triage", "g.gmail_summarize"}
      THEN MODEL_TRIAGE_PRIMARY
      ELSE "phi3:mini"

\* choose_model(quality_floor, integration_kind) of api/main.py
api_choose_model(quality_floor, integration_kind) ==
    IF integration_kind \in {"ms.mail_triage", "pd.inbox_lead_actions",
                             "pd.mail_lead", "pd.thread_summary_to_pd",
                             "g.gmail_summarize", "g.gmail_draft_reply"}
      THEN MODEL_TRIAGE_PRIMARY
      ELSE IF quality_floor <= 2 THEN "tinyllama" ELSE "phi3:mini"

\* route: the planned row, coerced to ollama
route_model(planned, quality_floor, kind) ==
    IF planned.provider # "ollama"
      THEN api_choose_model(quality_floor, kind)
      ELSE planned.model

\* route goes on to dispatch whatever call_ollama ended with
CallEnded(c) == c.pc = "done"

\* call_ollama returned its text (it raises otherwise)
CallReturned(c) == c.pc = "done" /\ c.result = "response"

\* what a post action comes to
DispatchResults == {"ok", "raise"}

\* dispatch_integration(kind, output_text, spec); acted: what the kind's
\* post action came to (stalled_deals_report never returns an empty text)
dispatch_integration(kind, output_text, acted) ==
    IF kind \in {"ms.mail_triage", "g.gmail_summarize",
                 "zoho.resume_summarize_prefetch"}
      THEN [kind |-> "return", artifact_uri |-> {},
            integration_status |-> {"ok"}, output_override |-> {}]
    ELSE IF kind = "g.gmail_draft_reply"
      THEN IF acted = "raise"
             THEN [kind |-> "raise", error |-> "HTTPException 500"]
             ELSE [kind |-> "return", artifact_uri |-> {"gmail-draft://id"},
                   integration_status |-> {"ok - replying to"},
                   output_override |-> output_text]
    ELSE IF kind = "g.docs_create"
      THEN IF acted = "raise"
             THEN [kind |-> "raise", error |-> "HTTPException 500"]
             ELSE [kind |-> "return", artifact_uri |-> {"docs://id"},
                   integration_status |-> {"ok"}, output_override |-> {}]
    ELSE IF kind = "pd.stalled_report"
      THEN IF acted = "raise"
             THEN [kind |-> "raise", error |-> "HTTPException 500"]
             ELSE [kind |-> "return", artifact_uri |-> {},
                   integration_status |-> {"ok"},
                   output_override |-> {"report"}]
    ELSE [kind |-> "raise", error |-> "HTTPException 400"]

ActsOnDispatch(kind) ==
    kind \in {"g.docs_create", "pd.stalled_report", "g.gmail_draft_reply"}

\* route that returns the model's text whatever the dispatcher said
route_output_ignoring_override(output, result) == output

\* route: if result.get("output_override"): output = result["output_override"]
route_output(output, result) ==
    IF Truthy(result.output_override) THEN result.output_override ELSE output

NoResponse ==
    [provider |-> "", model |-> "", output_text |-> {},
     estimated_cost_usd |-> 0, artifact_uri |-> {},
     integration_status |-> {}]

NoRoute ==
    [pc |-> "idle", kind |-> "none", quality_floor |-> 0,
     expected_output_tokens |-> 0, MODELS |-> << >>, keys |-> {},
     flexible |-> "n/a", fetched |-> "n/a", pre |-> {},
     prompt |-> UserPrompt, model |-> "", acted |-> "n/a",
     dispatched |-> FALSE, failed_at |-> "", error |-> "",
     response |-> NoResponse]

\* "Optional prefetch": _prefetch_context and the prompt built from it
RoutePrefetch ==
    \E flexible \in CollaboratorResults, fetched \in CollaboratorResults :
        /\ pipe.pc = "start"
        /\ LET pf == _prefetch_context(pipe.kind, flexible, fetched)
               asked == [pipe EXCEPT
                           !.flexible = IF CallsFlexible(pipe.kind)
                                          THEN flexible ELSE "n/a",
                           !.fetched = IF CallsFetch(pipe.kind, flexible)
                                         THEN fetched ELSE "n/a"]
           IN  pipe' =
                 IF pipe.kind = "none"
                   THEN [pipe EXCEPT !.pc = "plan"]
                 ELSE IF pf.kind = "raise"
                   THEN [asked EXCEPT !.pc = "error", !.error = pf.error,
                                      !.failed_at = "prefetch"]
                 ELSE [asked EXCEPT
                         !.pc = "plan", !.pre = pf.value,
                         !.prompt = route_prompt(pipe.kind, pf.value)]
        /\ UNCHANGED <<routeVars, storeVars, call, est, boot, workerVars, utilVars>>

\* "Cost-aware model planning" on the final prompt, up to the call
RoutePlan ==
    /\ pipe.pc = "plan"
    /\ LET planned == _pick_model_by_policy(pipe.MODELS, pipe.keys,
                                            pipe.prompt,
                                            pipe.expected_output_tokens,
                                            pipe.quality_floor)
           model   == route_model(planned, pipe.quality_floor, pipe.kind)
       IN  /\ pipe' = [pipe EXCEPT !.pc = "calling", !.model = model]
           /\ call' = [NoOllamaCall EXCEPT !.pc = "primary", !.model = model,
                                           !.retries = RETRIES]
    /\ UNCHANGED <<routeVars, storeVars, est, boot, workerVars, utilVars>>

\* call_ollama is over: its exception ends the request, its text goes to
\* dispatch_integration and into the RouteResponse
RouteDispatch ==
    \E acted \in DispatchResults :
        /\ pipe.pc = "calling"
        /\ CallEnded(call)
        /\ LET output == {"answer"}
               result == dispatch_integration(pipe.kind, output, acted)
               went == [pipe EXCEPT
                          !.dispatched = TRUE,
                          !.acted = IF ActsOnDispatch(pipe.kind)
                                      THEN acted ELSE "n/a"]
               answer == [provider |-> "ollama", model |-> pipe.model,
                          output_text |-> output, estimated_cost_usd |-> 0,
                          artifact_uri |-> {}, integration_status |-> {}]
           IN  pipe' =
                 IF ~CallReturned(call)
                   THEN [pipe EXCEPT !.pc = "error", !.error = call.result,
                                     !.failed_at = "call"]
                 ELSE IF pipe.kind = "none"
                   THEN [pipe EXCEPT !.pc = "responded",
                                     !.response = answer]
                 ELSE IF result.kind = "raise"
                   THEN [went EXCEPT !.pc = "error", !.error = result.error,
                                     !.failed_at = "dispatch"]
                 ELSE [went EXCEPT
                         !.pc = "responded",
                         !.response =
                             [answer EXCEPT
                                !.output_text =
                                    route_output(output, result),
                                !.artifact_uri = result.artifact_uri,
                                !.integration_status =
                                    result.integration_status]]
        /\ UNCHANGED <<routeVars, storeVars, call, est, boot, workerVars, utilVars>>

(***************************************************************************)
(* api/main.py: choose_model, the selection by floor and integration kind  *)
(***************************************************************************)
MaxQualityFloor == 5

\* quality_floor is an int of the request
SelectFloors == (0 - 1)..MaxQualityFloor

\* integration kinds of a request; "none" stands for None
SelectKinds ==
    IntegrationKinds \cup
        {"", "pd.inbox_lead_actions", "pd.mail_lead", "pd.thread_summary_to_pd"}

NoSelection ==
    [pc |-> "idle", quality_floor |-> 0, integration_kind |-> "none",
     model |-> ""]

\* selected = choose_model(req.quality_floor, kind)
SelectModel ==
    /\ sel.pc = "args"
    /\ sel' = [sel EXCEPT !.pc = "returned",
                          !.model = api_choose_model(sel.quality_floor,
                                                     sel.integration_kind)]
    /\ UNCHANGED <<routeVars, storeVars, call, est, boot, workerVars, pipe,
                   limiter, adapter>>

(***************************************************************************)
(* app/utils.py: RateLimiter                                               *)
(***************************************************************************)
MaxReqs == 2
MaxWindows == 2
MaxAllowCalls == 4

\* self.window, in seconds
WINDOW == 60

LimiterKeys == {"ip1", "ip2"}

\* time.time() is read in whole seconds; the clock moves by these amounts
TimeSteps == {30, 59}

WindowStarts == { n * WINDOW : n \in 0..(MaxWindows - 1) }

\* self.bucket, read with .get(k, 0): an absent entry counts 0
EmptyBucket == [k \in LimiterKeys \X WindowStarts |-> 0]

NoAllow == [key |-> "", allowed |-> TRUE, retry |-> 0]

\* granted counts, per key and window, the calls answered (True, ...)
NoLimiter ==
    [enabled |-> FALSE, reqs |-> 0, bucket |-> EmptyBucket, now |-> 0,
     calls |-> 0, granted |-> EmptyBucket, last |-> NoAllow]

\* int(now // self.window) * self.window
window_start(now) == (now \div WINDOW) * WINDOW

\* a limiter that lets the call at the limit through
allow_one_more(self, key, now) ==
    LET k     == <<key, window_start(now)>>
        count == self.bucket[k]
    IN  IF ~self.enabled
          THEN [allowed |-> TRUE, retry |-> 0, bucket |-> self.bucket]
        ELSE IF count > self.reqs
          THEN [allowed |-> FALSE,
                retry   |-> WINDOW - (now - window_start(now)),
                bucket  |-> self.bucket]
        ELSE [allowed |-> TRUE, retry |-> 0,
              bucket  |-> [self.bucket EXCEPT ![k] = count + 1]]

\* RateLimiter.allow(key) at time now: the pair returned and self.bucket
allow(self, key, now) ==
    LET k     == <<key, window_start(now)>>
        count == self.bucket[k]
    IN  IF ~self.enabled
          THEN [allowed |-> TRUE, retry |-> 0, bucket |-> self.bucket]
        ELSE IF count >= self.reqs
          THEN [allowed |-> FALSE,
                retry   |-> WINDOW - (now - window_start(now)),
                bucket  |-> self.bucket]
        ELSE [allowed |-> TRUE, retry |-> 0,
              bucket  |-> [self.bucket EXCEPT ![k] = count + 1]]

\* a request reaches the limiter
Allow ==
    \E key \in LimiterKeys :
        /\ limiter.calls < MaxAllowCalls
        /\ LET r == allow(limiter, key, limiter.now)
               k == <<key, window_start(limiter.now)>>
           IN  limiter' =
                 [limiter EXCEPT
                    !.bucket = r.bucket,
                    !.calls = @ + 1,
                    !.granted = IF r.allowed /\ limiter.enabled
                                  THEN [@ EXCEPT ![k] = @ + 1]
                                  ELSE @,
                    !.last = [key |-> key, allowed |-> r.allowed,
                              retry |-> r.retry]]
        /\ UNCHANGED <<routeVars, storeVars, call, est, boot, workerVars, pipe,
                       sel, adapter>>

\* time passes between requests
Tick ==
    \E d \in TimeSteps :
        /\ limiter.now + d < MaxWindows * WINDOW
        /\ limiter' = [limiter EXCEPT !.now = @ + d]
        /\ UNCHANGED <<routeVars, storeVars, call, est, boot, workerVars, pipe,
                       sel, adapter>>

(***************************************************************************)
(* app/providers: the ProviderAdapter implementations                      *)
(***************************************************************************)
MaxInstalled == 2

\* model tags are strings of these characters, in code point order
Chars ==
    <<".", "1", "3", "4", "5", "a", "e", "g", "h", "i", "m", "n", "p", "q",
      "w">>

Code(c) == CHOOSE i \in DOMAIN Chars : Chars[i] = c

phi3 == <<"p", "h", "i", "3">>
phi3_1 == <<"p", "h", "i", "3", ".", "1">>
phi3_5 == <<"p", "h", "i", "3", ".", "5">>
phi4 == <<"p", "h", "i", "4">>
qwen == <<"q", "w", "e", "n">>
gemma == <<"g", "e", "m", "m", "a">>

\* tags an Ollama server may have installed, and models a caller may ask for
InstallableTags == {phi3, phi3_5, phi4, qwen}
RequestedTags == {<< >>, phi3, phi3_1, phi3_5, phi4, qwen, gemma}

\* str < str
RECURSIVE LexLess(_, _)
LexLess(s, t) ==
    IF s = << >> THEN t # << >>
    ELSE IF t = << >> THEN FALSE
    ELSE IF s[1] = t[1] THEN LexLess(Tail(s), Tail(t))
    ELSE Code(s[1]) < Code(t[1])

\* sorted(set(names))
RECURSIVE SortedTags(_)
SortedTags(S) ==
    IF S = {} THEN << >>
    ELSE LET least == CHOOSE x \in S : \A y \in S \ {x} : LexLess(x, y)
         IN  <<least>> \o SortedTags(S \ {least})

\* what _list_installed_models returns when the server answers
InstalledLists ==
    { SortedTags(S) : S \in { T \in SUBSET InstallableTags :
                                 Cardinality(T) <= MaxInstalled } }

TagsOf(available) == { available[i] : i \in DOMAIN available }

\* difflib: the length of the block a[i..] = b[j..] inside the two ranges
RECURSIVE CommonRun(_, _, _, _, _, _)
CommonRun(a, i, ahi, b, j, bhi) ==
    IF i > ahi \/ j > bhi THEN 0
    ELSE IF a[i] # b[j] THEN 0
    ELSE 1 + CommonRun(a, i + 1, ahi, b, j + 1, bhi)

\* SequenceMatcher.find_longest_match: the longest block, the earliest in a
\* and then the earliest in b among equals; <<i, j, size>>
find_longest_match(a, alo, ahi, b, blo, bhi) ==
    LET blocks == { <<i, j, CommonRun(a, i, ahi, b, j, bhi)>> :
                       i \in alo..ahi, j \in blo..bhi }
        longest == CHOOSE m \in blocks :
                      \A n \in blocks :
                          \/ m[3] > n[3]
                          \/ m[3] = n[3] /\ m[1] < n[1]
                          \/ m[3] = n[3] /\ m[1] = n[1] /\ m[2] <= n[2]
    IN  IF blocks = {} THEN <<alo, blo, 0>> ELSE longest

\* SequenceMatcher.get_matching_blocks, summed: the characters matched
RECURSIVE matching_chars(_, _, _, _, _, _)
matching_chars(a, alo, ahi, b, blo, bhi) ==
    IF alo > ahi \/ blo > bhi THEN 0
    ELSE LET m == find_longest_match(a, alo, ahi, b, blo, bhi)
         IN  IF m[3] = 0 THEN 0
             ELSE m[3]
                  + matching_chars(a, alo, m[1] - 1, b, blo, m[2] - 1)
                  + matching_chars(a, m[1] + m[3], ahi, b, m[2] + m[3], bhi)

\* SequenceMatcher(a = x, b = word).ratio() = 2.0 * matches / length, kept
\* as the fraction <<2 * matches, length>>
ratio(x, word) ==
    <<2 * matching_chars(x, 1, Len(x), word, 1, Len(word)), Len(x) + Len(word)>>

\* ratio() >= cutoff, cutoff = 0.6
AtLeastCutoff(r) == r[2] = 0 \/ 10 * r[1] >= 6 * r[2]

\* (score, x) > (score, y) as heapq.nlargest compares the pairs
Closer(x, y, word) ==
    LET rx == ratio(x, word)
        ry == ratio(y, word)
    IN  \/ rx[1] * ry[2] > ry[1] * rx[2]
        \/ rx[1] * ry[2] = ry[1] * rx[2] /\ LexLess(y, x)

\* difflib.get_close_matches(req, available, n=1, cutoff=0.6): {} is []
get_close_matches(word, possibilities) ==
    LET close == { x \in TagsOf(possibilities) : AtLeastCutoff(ratio(x, word)) }
    IN  { x \in close : \A y \in close \ {x} : Closer(x, y, word) }

HasDot(req) == \E i \in DOMAIN req : req[i] = "."

\* req.split(".", 1)[0]
PrefixBeforeDot(req) ==
    LET dot == CHOOSE i \in DOMAIN req :
                  req[i] = "." /\ \A j \in 1..(i - 1) : req[j] # "."
    IN  SubSeq(req, 1, dot - 1)

\* a reconciliation that tries the fuzzy match before the prefix
_choose_best_model_fuzzy_first(requested, available) ==
    LET first == IF available # << >> THEN {available[1]} ELSE {}
    IN  IF requested = << >> THEN first
        ELSE IF requested \in TagsOf(available) THEN {requested}
        ELSE IF get_close_matches(requested, available) # {}
          THEN get_close_matches(requested, available)
        ELSE IF HasDot(requested)
                  /\ PrefixBeforeDot(requested) \in TagsOf(available)
          THEN {PrefixBeforeDot(requested)}
        ELSE first

\* _choose_best_model(requested, available): {} stands for None
_choose_best_model(requested, available) ==
    LET first == IF available # << >> THEN {available[1]} ELSE {}
    IN  IF requested = << >> THEN first
        ELSE IF requested \in TagsOf(available) THEN {requested}
        ELSE IF HasDot(requested)
                  /\ PrefixBeforeDot(requested) \in TagsOf(available)
          THEN {PrefixBeforeDot(requested)}
        ELSE IF get_close_matches(requested, available) # {}
          THEN get_close_matches(requested, available)
        ELSE first

HostedProviders == {"openai", "anthropic", "mistral", "google"}

\* the model a hosted adapter is asked for
HostedModelName == <<"m">>

\* the upstream's answer to a generation request
UpstreamReplies == {"ok", "timeout", "status"}

\* the usage block of a 2xx answer; {} when the upstream leaves it out
UsageReports == { {}, {[tokens_in |-> 3, tokens_out |-> 1]} }

\* the answer to GET /api/tags
TagsReplies == {"ok", "status"}

NoResult == [kind |-> "none", error |-> "", tokens_in |-> 0, tokens_out |-> 0]

NoAdapter ==
    [pc |-> "idle", provider |-> "", has_key |-> FALSE,
     prompt |-> [chars |-> 0, o200k |-> 0], max_tokens |-> 0,
     model |-> << >>, installed |-> << >>, tags_reply |-> "ok",
     upstream |-> "ok", usage |-> {}, requests |-> << >>, chosen |-> {},
     result |-> NoResult]

RaisedError(error) == [NoResult EXCEPT !.kind = "raised", !.error = error]

\* return text, TokenStats(tokens_in=..., tokens_out=...)
ReturnedStats(tokens_in, tokens_out) ==
    [NoResult EXCEPT !.kind = "returned", !.tokens_in = tokens_in,
                     !.tokens_out = tokens_out]

\* the usage numbers an adapter reads, with its defaults for a missing block
UsageOr(usage, default_in, default_out) ==
    IF usage = {}
      THEN ReturnedStats(default_in, default_out)
      ELSE LET u == CHOOSE x \in usage : TRUE
           IN  ReturnedStats(u.tokens_in, u.tokens_out)

\* what an httpx adapter's "post; raise_for_status" ends with
HttpxError(reply) ==
    IF reply = "timeout" THEN "httpx.ReadTimeout" ELSE "httpx.HTTPStatusError"

\* the errors an adapter raises for a timeout or a non-2xx answer
UpstreamErrors(provider) ==
    IF provider = "google"
      THEN {"RuntimeError", "google.api_core.exceptions.GoogleAPIError"}
      ELSE {"httpx.ReadTimeout", "httpx.HTTPStatusError"}

\* OpenAIAdapter.complete
OpenAIComplete ==
    /\ adapter.pc = "args"
    /\ adapter.provider = "openai"
    /\ adapter' =
         IF ~adapter.has_key
           THEN [adapter EXCEPT !.pc = "done", !.result = RaisedError("RuntimeError")]
         ELSE [adapter EXCEPT
                 !.pc = "done",
                 !.requests = Append(@, "POST /v1/chat/completions"),
                 !.result = IF adapter.upstream = "ok"
                              THEN UsageOr(adapter.usage, 0, 0)
                              ELSE RaisedError(HttpxError(adapter.upstream))]
    /\ UNCHANGED <<routeVars, storeVars, call, est, boot, workerVars, pipe,
                   sel, limiter>>

\* AnthropicAdapter.complete: the header carries "" for a missing key
AnthropicComplete ==
    /\ adapter.pc = "args"
    /\ adapter.provider = "anthropic"
    /\ adapter' =
         [adapter EXCEPT
            !.pc = "done",
            !.requests = Append(@, "POST /v1/messages"),
            !.result = IF adapter.upstream = "ok"
                         THEN UsageOr(adapter.usage, 0, adapter.max_tokens)
                         ELSE RaisedError(HttpxError(adapter.upstream))]
    /\ UNCHANGED <<routeVars, storeVars, call, est, boot, workerVars, pipe,
                   sel, limiter>>

\* MistralAdapter.complete
MistralComplete ==
    /\ adapter.pc = "args"
    /\ adapter.provider = "mistral"
    /\ adapter' =
         IF ~adapter.has_key
           THEN [adapter EXCEPT !.pc = "done", !.result = RaisedError("ValueError")]
         ELSE [adapter EXCEPT
                 !.pc = "done",
                 !.requests = Append(@, "POST /v1/chat/completions"),
                 !.result = IF adapter.upstream = "ok"
                              THEN UsageOr(adapter.usage, 0, adapter.max_tokens)
                              ELSE RaisedError(HttpxError(adapter.upstream))]
    /\ UNCHANGED <<routeVars, storeVars, call, est, boot, workerVars, pipe,
                   sel, limiter>>

\* GoogleAdapter.complete; the key was checked when the adapter was built
GoogleComplete ==
    /\ adapter.pc = "args"
    /\ adapter.provider = "google"
    /\ adapter' =
         [adapter EXCEPT
            !.pc = "done",
            !.requests = Append(@, "generate_content"),
            !.result =
               IF adapter.upstream = "ok" THEN UsageOr(adapter.usage, 0, 0)
               ELSE IF adapter.upstream = "timeout" THEN RaisedError("RuntimeError")
               ELSE RaisedError("google.api_core.exceptions.GoogleAPIError")]
    /\ UNCHANGED <<routeVars, storeVars, call, est, boot, workerVars, pipe,
                   sel, limiter>>

\* OllamaAdapter.complete, up to "available = await _list_installed_models"
OllamaListModels ==
    /\ adapter.pc = "args"
    /\ adapter.provider = "ollama"
    /\ adapter' =
         IF adapter.tags_reply = "ok"
           THEN [adapter EXCEPT !.pc = "listed",
                                !.requests = Append(@, "GET /api/tags")]
           ELSE [adapter EXCEPT !.pc = "done",
                                !.requests = Append(@, "GET /api/tags"),
                                !.result = RaisedError("httpx.HTTPStatusError")]
    /\ UNCHANGED <<routeVars, storeVars, call, est, boot, workerVars, pipe,
                   sel, limiter>>

\* OllamaAdapter.complete from _choose_best_model to the return
OllamaGenerate ==
    /\ adapter.pc = "listed"
    /\ LET chosen == _choose_best_model(adapter.model, adapter.installed)
       IN  adapter' =
             IF chosen = {}
               THEN [adapter EXCEPT !.pc = "done",
                                    !.result = RaisedError("RuntimeError")]
             ELSE [adapter EXCEPT
                     !.pc = "done",
                     !.chosen = chosen,
                     !.requests = Append(@, "POST /api/generate"),
                     !.result = IF adapter.upstream = "ok"
                                  THEN UsageOr(adapter.usage, 0, 0)
                                  ELSE RaisedError(HttpxError(adapter.upstream))]
    /\ UNCHANGED <<routeVars, storeVars, call, est, boot, workerVars, pipe,
                   sel, limiter>>

(***************************************************************************)
(* Specifications                                                          *)
(***************************************************************************)
StoreAtRest ==
    /\ jobs = {}
    /\ sess = [s \in Sessions |-> IdleSession]
    /\ clock = 0
    /\ next_id = 1
    /\ calls = 0

RouteAtRest ==
    /\ price_rows = << >>
    /\ request = NoRequest
    /\ outcome = NoCall

WorkersAtRest ==
    /\ queue = [j \in MessageJobIds |-> 0]
    /\ worker = [w \in Workers |-> IdleWorker]
    /\ job_costs = << >>
    /\ deliveries = 0
    /\ crashes = 0

UtilAtRest ==
    /\ sel = NoSelection
    /\ limiter = NoLimiter
    /\ adapter = NoAdapter

RestAtRest ==
    /\ est = NoEstimate
    /\ boot = NoBoot
    /\ WorkersAtRest
    /\ pipe = NoRoute
    /\ UtilAtRest

\* A RoutingPolicy has been constructed over some catalog and a caller is
\* about to call choose_model with some arguments.
InitRoute ==
    /\ price_rows \in Catalogs
    /\ request \in Requests
    /\ outcome = NoCall
    /\ StoreAtRest
    /\ call = NoOllamaCall
    /\ RestAtRest

\* choose_model keeps no state between calls, so one call per behaviour
\* covers every call.
ChooseModel ==
    /\ outcome = NoCall
    /\ outcome' = choose_model(price_rows, request)
    /\ UNCHANGED <<price_rows, request, storeVars, call, restVars>>

NextRoute == ChooseModel

SpecRoute == InitRoute /\ [][NextRoute]_vars

InitStore == RouteAtRest /\ StoreAtRest /\ call = NoOllamaCall /\ RestAtRest

\* sessions of concurrent requests and workers interleave at every await
NextStore ==
    \E s \in Sessions :
        \/ BeginUpsert(s)
        \/ SelectJob(s)
        \/ TouchJob(s)
        \/ InsertJob(s)
        \/ CommitSession(s)

SpecStore == InitStore /\ [][NextStore]_vars

\* one submission at a time: a call runs to its commit before the next begins
NextStoreSeq ==
    \E s \in Sessions :
        \/ Alone(s) /\ BeginUpsert(s)
        \/ Alone(s) /\ SelectJob(s)
        \/ Alone(s) /\ TouchJob(s)
        \/ Alone(s) /\ InsertJob(s)
        \/ Alone(s) /\ CommitSession(s)

SpecStoreSeq == InitStore /\ [][NextStoreSeq]_vars

InitCall == RouteAtRest /\ StoreAtRest /\ call = NoOllamaCall /\ RestAtRest

NextCall == StartCall \/ PrimaryRequest \/ FallbackRequest

SpecCall == InitCall /\ [][NextCall]_vars

\* a caller has the arguments of one estimate in hand
InitTokens ==
    /\ est \in { [NoEstimate EXCEPT !.pc = "args", !.provider = p,
                                      !.prompt = t,
                                      !.expected_output_tokens = n] :
                    p \in Providers, t \in TokenPrompts,
                    n \in ExpectedOutputTokens }
    /\ boot = NoBoot
    /\ WorkersAtRest
    /\ pipe = NoRoute
    /\ RouteAtRest
    /\ StoreAtRest
    /\ call = NoOllamaCall
    /\ UtilAtRest

NextTokens == EstimateTokens

SpecTokens == InitTokens /\ [][NextTokens]_vars

\* some catalog file is on disk when the API and a worker start
InitCatalog ==
    /\ boot \in { [NoBoot EXCEPT !.pc = "start", !.file = f, !.keys = k,
                                  !.rq = r] :
                     f \in CatalogFiles, k \in KeySets, r \in BootRequests }
    /\ est = NoEstimate
    /\ WorkersAtRest
    /\ pipe = NoRoute
    /\ RouteAtRest
    /\ StoreAtRest
    /\ call = NoOllamaCall
    /\ UtilAtRest

NextCatalog ==
    \/ LoadPriceTable
    \/ PickModelByPolicy
    \/ ConstructRoutingPolicy
    \/ PolicyChooseModel

SpecCatalog == InitCatalog /\ [][NextCatalog]_vars

\* job 1 was accepted and is queued; one message for it and one for a
\* job_id the table does not hold are ready
InitWorker ==
    /\ jobs = {NewJob(1, CHOOSE d \in JobDefaults : d.user_id = "u1", "", 0)}
    /\ sess = [s \in Sessions |-> IdleSession]
    /\ clock = 1
    /\ next_id = 2
    /\ calls = 0
    /\ queue = [j \in MessageJobIds |-> 1]
    /\ worker = [w \in Workers |-> IdleWorker]
    /\ job_costs = << >>
    /\ deliveries = 0
    /\ crashes = 0
    /\ RouteAtRest
    /\ call = NoOllamaCall
    /\ est = NoEstimate
    /\ boot = NoBoot
    /\ pipe = NoRoute
    /\ UtilAtRest

NextWorker ==
    \E w \in Workers :
        \/ Deliver(w)
        \/ MarkRunning(w)
        \/ WorkerChooseModel(w)
        \/ AdapterComplete(w)
        \/ RecordSuccess(w)
        \/ AckMessage(w)
        \/ NackRequeue(w)
        \/ Crash(w)

SpecWorker == InitWorker /\ [][NextWorker]_vars

\* the price tables the API may have loaded at import
RouteCatalogs ==
    LET local  == [provider |-> "ollama", model |-> "tiny",
                   price_in_per_1k |-> 0, price_out_per_1k |-> 0,
                   max_input_tokens |-> 100, max_output_tokens |-> 100,
                   baseline_quality |-> 2]
        hosted == [provider |-> "openai", model |-> "big",
                   price_in_per_1k |-> 0, price_out_per_1k |-> 0,
                   max_input_tokens |-> 100, max_output_tokens |-> 100,
                   baseline_quality |-> 2]
    IN  { << >>, <<local>>, <<hosted>>, <<hosted, local>> }

\* a request has reached route; the tables are as they were before it
InitPipeline ==
    /\ pipe \in { [NoRoute EXCEPT !.pc = "start", !.kind = k,
                                   !.quality_floor = q,
                                   !.expected_output_tokens = 1,
                                   !.MODELS = c, !.keys = ks] :
                     k \in IntegrationKinds, q \in {2, 3},
                     c \in RouteCatalogs, ks \in KeySets }
    /\ call = NoOllamaCall
    /\ RouteAtRest
    /\ StoreAtRest
    /\ est = NoEstimate
    /\ boot = NoBoot
    /\ WorkersAtRest
    /\ UtilAtRest

NextPipeline ==
    \/ RoutePrefetch
    \/ RoutePlan
    \/ PrimaryRequest
    \/ FallbackRequest
    \/ RouteDispatch

SpecPipeline == InitPipeline /\ [][NextPipeline]_vars

\* a caller has a floor and a kind in hand
InitSelect ==
    /\ sel \in { [NoSelection EXCEPT !.pc = "args", !.quality_floor = q,
                                      !.integration_kind = k] :
                    q \in SelectFloors, k \in SelectKinds }
    /\ limiter = NoLimiter
    /\ adapter = NoAdapter
    /\ RouteAtRest
    /\ StoreAtRest
    /\ call = NoOllamaCall
    /\ est = NoEstimate
    /\ boot = NoBoot
    /\ WorkersAtRest
    /\ pipe = NoRoute

NextSelect == SelectModel

SpecSelect == InitSelect /\ [][NextSelect]_vars

\* RateLimiter(enabled, reqs_per_min) as constructed from the settings
InitLimiter ==
    /\ limiter \in { [NoLimiter EXCEPT !.enabled = e, !.reqs = n] :
                        e \in BOOLEAN, n \in 0..MaxReqs }
    /\ sel = NoSelection
    /\ adapter = NoAdapter
    /\ RouteAtRest
    /\ StoreAtRest
    /\ call = NoOllamaCall
    /\ est = NoEstimate
    /\ boot = NoBoot
    /\ WorkersAtRest
    /\ pipe = NoRoute

NextLimiter == Allow \/ Tick

SpecLimiter == InitLimiter /\ [][NextLimiter]_vars

\* a caller holds an adapter of the registry and the arguments of one call;
\* an upstream that is sent no valid key does not answer 2xx, and the
\* registry holds a GoogleAdapter only if its key was set
InitAdapter ==
    /\ adapter \in
         { [NoAdapter EXCEPT !.pc = "args", !.provider = a[1],
                             !.has_key = a[2], !.model = HostedModelName,
                             !.prompt = t, !.max_tokens = n,
                             !.upstream = u, !.usage = us] :
              a \in { <<p, k>> \in HostedProviders \X BOOLEAN :
                         p = "google" => k },
              t \in Prompts, n \in ExpectedOut,
              u \in UpstreamReplies, us \in UsageReports }
         \cup
         { [NoAdapter EXCEPT !.pc = "args", !.provider = "ollama",
                             !.model = m, !.installed = av,
                             !.tags_reply = tr,
                             !.prompt = t, !.max_tokens = n,
                             !.upstream = u, !.usage = us] :
              m \in RequestedTags, av \in InstalledLists, tr \in TagsReplies,
              t \in Prompts, n \in ExpectedOut,
              u \in UpstreamReplies, us \in UsageReports }
    /\ adapter.provider \in HostedProviders /\ ~adapter.has_key
          => adapter.upstream # "ok"
    /\ sel = NoSelection
    /\ limiter = NoLimiter
    /\ RouteAtRest
    /\ StoreAtRest
    /\ call = NoOllamaCall
    /\ est = NoEstimate
    /\ boot = NoBoot
    /\ WorkersAtRest
    /\ pipe = NoRoute

NextAdapter ==
    \/ OpenAIComplete
    \/ AnthropicComplete
    \/ MistralComplete
    \/ GoogleComplete
    \/ OllamaListModels
    \/ OllamaGenerate

SpecAdapter == InitAdapter /\ [][NextAdapter]_vars

(***************************************************************************)
(* Properties of RoutingPolicy.choose_model.  The gates are restated here  *)
(* on the catalog and the request, apart from the loop that applies them.  *)
(***************************************************************************)
Returned == outcome.kind = "return"
Raised   == outcome.kind = "raise"
Called   == outcome # NoCall
RowIdx   == 1..Len(price_rows)

Tok(i)  == estimate_tokens(price_rows[i].provider, price_rows[i].model,
                           request.input_text, request.expected_output_tokens)
Cost(i) == Tok(i).tokens_in * price_rows[i].price_in_per_1k
               + Tok(i).tokens_out * price_rows[i].price_out_per_1k

MatchesHints(i) ==
    /\ request.provider_hints.provider \in {"", price_rows[i].provider}
    /\ request.provider_hints.model \in {"", price_rows[i].model}
MeetsFloor(i)   == price_rows[i].baseline_quality >= request.quality_floor
FitsWindow(i)   == /\ Tok(i).tokens_in <= price_rows[i].max_input_tokens
                   /\ Tok(i).tokens_out <= price_rows[i].max_output_tokens
WithinBudget(i) == request.cost_ceiling_usd <= 0
                       \/ Cost(i) <= request.cost_ceiling_usd
Viable(i) == MatchesHints(i) /\ MeetsFloor(i) /\ FitsWindow(i) /\ WithinBudget(i)

CandidateIdx == { outcome.candidates[k].idx : k \in DOMAIN outcome.candidates }

\* C1: whenever choose_model returns a decision, the selected row has
\* baseline_quality >= quality_floor.
QualityFloorIsAbsolute ==
    Returned => outcome.row.baseline_quality >= request.quality_floor

\* a decision was returned although a row below the floor, passing every
\* other gate, would have been strictly cheaper
QualityFloorWitness ==
    /\ Returned
    /\ \E i \in RowIdx :
          /\ ~MeetsFloor(i)
          /\ MatchesHints(i) /\ FitsWindow(i) /\ WithinBudget(i)
          /\ Cost(i) < outcome.decision.estimated_cost_usd

\* C2: with cost_ceiling_usd > 0 the returned decision's estimated cost is
\* <= the ceiling; with cost_ceiling_usd <= 0 the candidates are exactly the
\* rows that pass the hints, the quality floor and the context limits.
BudgetRespected ==
    /\ (Returned /\ request.cost_ceiling_usd > 0)
          => outcome.decision.estimated_cost_usd <= request.cost_ceiling_usd
    /\ (Called /\ request.cost_ceiling_usd <= 0)
          => CandidateIdx = { i \in RowIdx :
                                MatchesHints(i) /\ MeetsFloor(i) /\ FitsWindow(i) }

\* a positive ceiling dropped a row that passes every other gate, and a
\* decision within the ceiling was still returned
BudgetCapWitness ==
    /\ Returned
    /\ request.cost_ceiling_usd > 0
    /\ \E i \in RowIdx :
          /\ MatchesHints(i) /\ MeetsFloor(i) /\ FitsWindow(i)
          /\ Cost(i) > request.cost_ceiling_usd

\* C3: the returned decision's estimated cost is <= the estimated cost of
\* every catalog row that passes the hint, quality, context and budget gates.
CheapestAmongViable ==
    Returned =>
        \A i \in RowIdx :
            Viable(i) => outcome.decision.estimated_cost_usd <= Cost(i)

\* the selected row is listed behind a viable row that costs strictly more
CheapestWitness ==
    /\ Returned
    /\ \E i \in RowIdx :
          /\ i < outcome.idx
          /\ Viable(i)
          /\ Cost(i) > outcome.decision.estimated_cost_usd

\* C4: the selected row's estimated tokens_in is within its max_input_tokens
\* and its tokens_out within its max_output_tokens.
ContextWindowRejection ==
    Returned =>
        /\ outcome.decision.tokens.tokens_in <= outcome.row.max_input_tokens
        /\ outcome.decision.tokens.tokens_out <= outcome.row.max_output_tokens

\* a row that meets hints, floor and budget and is strictly cheaper than the
\* selected one was passed over because its input estimate exceeds its window
ContextWindowWitness ==
    /\ Returned
    /\ \E i \in RowIdx :
          /\ MatchesHints(i) /\ MeetsFloor(i) /\ WithinBudget(i)
          /\ Tok(i).tokens_in > price_rows[i].max_input_tokens
          /\ Tok(i).tokens_out <= price_rows[i].max_output_tokens
          /\ Cost(i) < outcome.decision.estimated_cost_usd

FirstListedCheapestWins ==
    Returned =>
        LET cheapest == { i \in RowIdx :
                            /\ Viable(i)
                            /\ \A j \in RowIdx : Viable(j) => Cost(i) <= Cost(j) }
            first    == CHOOSE i \in cheapest : \A j \in cheapest : i <= j
        IN  /\ cheapest # {}
            /\ outcome.idx = first
            /\ outcome.decision =
                  [provider |-> price_rows[first].provider,
                   model |-> price_rows[first].model,
                   estimated_cost_usd |-> Cost(first),
                   system_prompt |-> DEFAULT_SYSTEM_PROMPT,
                   temperature |-> "0.2",
                   cache_hit |-> FALSE,
                   tokens |-> Tok(first)]

\* two viable rows of different providers tie on the minimum cost, and the
\* decision names the earlier one
TieBreakWitness ==
    /\ Returned
    /\ \E j \in RowIdx :
          /\ j > outcome.idx
          /\ Viable(j)
          /\ Cost(j) = outcome.decision.estimated_cost_usd
          /\ price_rows[j].provider # outcome.decision.provider

\* C7: a provider hint, and likewise a model hint, is a hard filter: a
\* returned decision carries the hinted provider and the hinted model, and
\* when no row matches the hints the call raises.
HintsAreHardFilters ==
    /\ (Returned /\ request.provider_hints.provider # "")
          => outcome.decision.provider = request.provider_hints.provider
    /\ (Returned /\ request.provider_hints.model # "")
          => outcome.decision.model = request.provider_hints.model
    /\ (Called /\ ~ \E i \in RowIdx : MatchesHints(i)) => Raised

\* the hinted model was selected although a row of another model, viable but
\* for the hint, is strictly cheaper
HintsWitness ==
    /\ Returned
    /\ request.provider_hints.model # ""
    /\ \E i \in RowIdx :
          /\ price_rows[i].model # request.provider_hints.model
          /\ MeetsFloor(i) /\ FitsWindow(i) /\ WithinBudget(i)
          /\ Cost(i) < outcome.decision.estimated_cost_usd

(***************************************************************************)
(* Properties of upsert_job_by_dedupe_key                                  *)
(***************************************************************************)
JobIds(rows) == { j.job_id : j \in rows }
AtRest(s) == sess[s].pc \in {"idle", "done", "raised"}

\* C8: submissions made one at a time: a call whose dedupe_key an existing
\* Job already carries inserts no Job row and returns that Job; a call with
\* no dedupe_key inserts a new Job and returns it.
UpsertReusesExistingJob ==
    [][\A s \in Sessions :
          (sess[s].pc = "commit" /\ sess'[s].pc = "done") =>
              LET k        == sess[s].dedupe_key
                  existing == { j \in jobs : j.dedupe_key = k }
              IN  /\ (k # "" /\ existing # {}) =>
                        /\ JobIds(jobs') = JobIds(jobs)
                        /\ sess'[s].ret = JobIds(existing)
                  /\ k = "" =>
                        /\ Cardinality(sess'[s].ret) = 1
                        /\ sess'[s].ret \cap JobIds(jobs) = {}
                        /\ JobIds(jobs') = JobIds(jobs) \cup sess'[s].ret
      ]_vars

\* a second submission of a key has returned the job of the first, and the
\* table holds that one job only
UpsertReuseWitness ==
    \E s \in Sessions :
        /\ sess[s].pc = "done"
        /\ sess[s].dedupe_key # ""
        /\ sess[s].job # {}
        /\ sess[s].ret = sess[s].job
        /\ calls = 2
        /\ JobIds(jobs) = sess[s].ret

\* C9 (as claimed): under any interleaving of upsert calls in separate
\* sessions, once the calls have committed the table holds exactly one Job
\* row for each dedupe_key submitted.
OneJobPerDedupeKey ==
    (\A s \in Sessions : AtRest(s)) =>
        \A k \in DedupeKeys \ {""} :
            LET rows == { j \in jobs : j.dedupe_key = k }
            IN  /\ Cardinality(rows) <= 1
                /\ (\E s \in Sessions : sess[s].pc = "done" /\ sess[s].dedupe_key = k)
                       => Cardinality(rows) = 1

(***************************************************************************)
(* Properties of call_ollama                                               *)
(***************************************************************************)
Sent(m) == { i \in DOMAIN call.log : call.log[i][1] = m }
EveryRequestTimedOut == \A i \in DOMAIN call.log : call.log[i][2] = "timeout"

\* C10 (as claimed): when every request times out, call_ollama sends at most
\* max_attempts requests to the primary model and at most one to the
\* fallback model, and ends with an error.
RetryFallbackBound ==
    (call.pc # "idle" /\ EveryRequestTimedOut) =>
        /\ Cardinality(Sent(call.model)) <= max_attempts
        /\ Cardinality(DOMAIN call.log \ Sent(call.model)) <= 1
        /\ call.pc = "done" => call.result = "HTTPException 502"

\* C12 (as claimed): a permanent upstream error (HTTP 4xx other than 429) is
\* not retried: it is the last request call_ollama makes and the call ends
\* at once with the error.
PermanentErrorsNotRetried ==
    \A i \in DOMAIN call.log :
        call.log[i][2] = "http_4xx" =>
            /\ i = Len(call.log)
            /\ call.pc = "done"
            /\ call.result = "HTTPException 502"

(***************************************************************************)
(* Properties of the token estimators                                      *)
(***************************************************************************)
Estimated == est.pc = "done"

\* C19 (as claimed): for a provider without an exact tokenizer and any
\* prompt text, the empty string included, estimate_tokens returns
\* tokens_in = max(1, floor(len(prompt)/4)).
HeuristicTokensIn ==
    (Estimated /\ est.provider # "openai") =>
        est.stats.tokens_in = Max(1, est.prompt.chars \div 4)

\* C20 (as claimed): for any expected_output_tokens, zero and negative
\* values included, estimate_tokens returns
\* tokens_out = max(1, expected_output_tokens).
TokensOutAtLeastOne ==
    Estimated => est.stats.tokens_out = Max(1, est.expected_output_tokens)

(***************************************************************************)
(* Properties of the catalog readers                                       *)
(***************************************************************************)
NoCatalogRows == ~boot.file.exists \/ boot.file.models = << >>
BothPathsEnded == boot.pc \in {"failed", "chosen"}

\* C18 (as claimed): with a missing or empty price catalog both selection
\* paths yield a runnable local model: _pick_model_by_policy returns an
\* ollama row, and RoutingPolicy is constructed and its choose_model
\* returns a decision for the local provider.
MissingCatalogFallsBackToLocal ==
    (NoCatalogRows /\ BothPathsEnded) =>
        /\ boot.planned.provider = "ollama"
        /\ boot.pc = "chosen"
        /\ boot.decision.kind = "return"
        /\ boot.decision.decision.provider = "ollama"

(***************************************************************************)
(* Properties of the queue worker                                          *)
(***************************************************************************)
StatusOf(rows, job_id) == (CHOOSE j \in rows : j.job_id = job_id).status

\* the exceptions adapter.complete leaves the handler with
ProviderErrors == AdapterOutcomes \ {"ok"}

\* C13 (as claimed): when the provider call of a job has failed for good,
\* the handler leaves the Job in status failed.
FailedCallMarksJobFailed ==
    \A w \in Workers :
        (worker[w].pc = "raising" /\ worker[w].error \in ProviderErrors) =>
            StatusOf(jobs, worker[w].job_id) = "failed"

\* C14 (as claimed): whatever messages are delivered or redelivered, a
\* change of Job.status is one of queued -> running, running -> succeeded,
\* running -> failed, and a succeeded or failed Job keeps its status.
StatusStateMachine ==
    [][\A j \in jobs :
          LET old == j.status
              new == StatusOf(jobs', j.job_id)
          IN  old # new =>
                  \/ old = "queued" /\ new = "running"
                  \/ old = "running" /\ new \in {"succeeded", "failed"}
      ]_vars

(***************************************************************************)
(* Properties of POST /route                                               *)
(***************************************************************************)
Prefetched == pipe.pc \notin {"idle", "start"}
ProviderCalled == call # NoOllamaCall

\* every request to the primary model timed out and the one request to the
\* fallback model was answered
AnsweredByFallback ==
    /\ call.pc = "done"
    /\ Len(call.log) = call.retries + 2
    /\ \A i \in 1..(Len(call.log) - 1) :
          call.log[i] = <<MODEL_TRIAGE_PRIMARY, "timeout">>
    /\ call.log[Len(call.log)] = <<MODEL_TRIAGE_FALLBACK, "ok">>

JobCostsOf(job_id) ==
    { i \in DOMAIN job_costs : job_costs[i].job_id = job_id }

\* C11 (as claimed): when every attempt on the primary model times out and
\* the fallback attempt succeeds, the job ends succeeded with exactly one
\* JobCost row, and that row names the fallback model.
FallbackSuccessRecordsFallbackModel ==
    (pipe.pc = "responded" /\ AnsweredByFallback) =>
        \E j \in jobs :
            /\ j.status = "succeeded"
            /\ Cardinality(JobCostsOf(j.job_id)) = 1
            /\ \A i \in JobCostsOf(j.job_id) :
                  job_costs[i].model = MODEL_TRIAGE_FALLBACK

\* C15 (as claimed): when the provider call succeeded and the integration's
\* post action fails, the response still carries the model's output, with
\* the failure in integration_status.
DispatchFailureKeepsOutput ==
    (pipe.dispatched /\ pipe.acted = "raise") =>
        /\ pipe.pc = "responded"
        /\ pipe.response.output_text = {"answer"}
        /\ pipe.response.integration_status \notin { {}, {"ok"} }

CollaboratorRaised == "raise" \in {pipe.flexible, pipe.fetched}

\* no collaborator raised and none of those asked had anything to give
EmptyPrefetch ==
    /\ ~CollaboratorRaised
    /\ pipe.flexible # "text"
    /\ pipe.fetched # "text"

PipelineOrder ==
    /\ ProviderCalled =>
          /\ Prefetched
          /\ pipe.prompt = IF pipe.kind = "none" THEN UserPrompt
                           ELSE route_prompt(pipe.kind, pipe.pre)
          /\ call.model =
                route_model(_pick_model_by_policy(
                                pipe.MODELS, pipe.keys, pipe.prompt,
                                pipe.expected_output_tokens,
                                pipe.quality_floor),
                            pipe.quality_floor, pipe.kind)
    /\ pipe.dispatched =>
          /\ ProviderCalled
          /\ call.pc = "done"
          /\ call.result = "response"

\* a request with a prefetched context whose call needed more than one
\* request has been dispatched and answered
PipelineOrderWitness ==
    /\ pipe.pc = "responded"
    /\ pipe.dispatched
    /\ Truthy(pipe.pre)
    /\ Len(call.log) > 1

\* what the dispatcher's result carried as output_override, {} for none
DispatchedOverride ==
    IF pipe.dispatched
      THEN dispatch_integration(pipe.kind, {"answer"},
                                pipe.acted).output_override
      ELSE {}

\* C25: when the dispatcher's result carries an output_override the
\* response's output_text is that override; when it carries none, the
\* output_text is the model's output.
OutputOverrideReplacesOutput ==
    pipe.pc = "responded" =>
        pipe.response.output_text =
            IF DispatchedOverride # {} THEN DispatchedOverride
                                       ELSE {"answer"}

\* a stalled-deals request has been answered with the report in place of
\* the model's text
OutputOverrideWitness ==
    /\ pipe.pc = "responded"
    /\ pipe.kind = "pd.stalled_report"
    /\ DispatchedOverride = {"report"}
    /\ pipe.response.output_text = {"report"}

(***************************************************************************)
(* Properties of _pick_model_by_policy                                     *)
(***************************************************************************)
Picked == boot.pc \in {"picked", "constructed", "failed", "chosen"}

\* _estimate_cost: a missing price counts as 0.0
ApiCost(row) ==
    LET toks == _estimate_tokens(boot.rq.input_text,
                                 boot.rq.expected_output_tokens)
    IN  IF "price_in_per_1k" \in DOMAIN row
          THEN toks.ptoks * row.price_in_per_1k
                   + toks.otoks * row.price_out_per_1k
          ELSE 0

ApiViable(row) ==
    /\ row.baseline_quality >= boot.rq.quality_floor
    /\ row.provider = "ollama" \/ row.provider \in boot.keys

\* C26 (as claimed): for every catalog and quality_floor the row that
\* _pick_model_by_policy returns has baseline_quality >= quality_floor and,
\* if hosted, a configured API key, and no viable row costs less.
PickMeetsFloorAndIsCheapest ==
    Picked =>
        /\ ApiViable(boot.planned)
        /\ \A i \in DOMAIN boot.MODELS :
              ApiViable(boot.MODELS[i]) =>
                  ApiCost(boot.planned) <= ApiCost(boot.MODELS[i])

(***************************************************************************)
(* Properties of the worker's delivery protocol                            *)
(***************************************************************************)
\* worker w leaves its handler in this step
Leaves(w) == worker[w].pc # "idle" /\ worker'[w].pc = "idle"

\* C27: a message is acknowledged only after the job's succeeded status and
\* its JobCost row have been committed (one commit writes both), or when
\* the job_id is missing from the store, and then no model was chosen and
\* no provider called; a handler that raised leaves its message requeued.
AckOnlyAfterCommit ==
    [][\A w \in Workers :
          Leaves(w) =>
              LET j == worker[w].job_id
              IN  /\ queue'[j] = queue[j] =>
                        \/ /\ \A row \in jobs : row.job_id # j
                           /\ worker[w].decision = IdleWorker.decision
                        \/ /\ JobCostsOf(j) # {}
                           /\ worker[w].pc = "ack"
                  /\ queue'[j] # queue[j] => queue'[j] = queue[j] + 1
                  /\ worker[w].pc = "raising" => queue'[j] = queue[j] + 1
      ]_vars

\* the message of job 1 has been acknowledged after its commit, with no
\* crash: nobody holds it, none is ready, the job is succeeded with its row
AckAfterCommitWitness ==
    /\ crashes = 0
    /\ queue[1] = 0
    /\ \A w \in Workers : worker[w].job_id # 1
    /\ StatusOf(jobs, 1) = "succeeded"
    /\ JobCostsOf(1) # {}

\* C28 (as claimed): after any deliveries, crashes and redeliveries of a
\* job's message, a succeeded job has exactly one JobCost row.
OneJobCostPerSucceededJob ==
    \A j \in jobs :
        j.status = "succeeded" => Cardinality(JobCostsOf(j.job_id)) = 1

\* the columns of a Job row other than updated_at
FrameOf(j) ==
    [job_id |-> j.job_id, status |-> j.status, user_id |-> j.user_id,
     task_type |-> j.task_type, cost_ceiling_usd |-> j.cost_ceiling_usd,
     created_at |-> j.created_at, dedupe_key |-> j.dedupe_key]

\* session s commits a call that found an existing Job for its dedupe_key
CommitsTouch(s) ==
    /\ sess[s].pc = "commit"
    /\ sess'[s].pc = "done"
    /\ sess[s].touched # {}

\* C29: a call of upsert_job_by_dedupe_key whose dedupe_key an existing Job
\* carries changes that Job's updated_at and nothing else: the Job keeps its
\* job_id, status, user_id, task_type, cost_ceiling_usd, created_at and
\* dedupe_key, the defaults object is not inserted, and every other Job row
\* is left as it was.
UpsertTouchesOnlyUpdatedAt ==
    [][\A s \in Sessions :
          CommitsTouch(s) =>
              /\ sess[s].inserted = {}
              /\ Cardinality(jobs') = Cardinality(jobs)
              /\ \A j \in jobs :
                    IF j.job_id \in sess[s].job
                      THEN \E n \in jobs' :
                              /\ FrameOf(n) = FrameOf(j)
                              /\ \E t \in sess[s].touched : n.updated_at = t[2]
                      ELSE j \in jobs'
      ]_vars

\* an existing Job submitted by one caller was found again by a call whose
\* defaults differ, next to another Job, and only its updated_at moved
UpsertTouchWitness ==
    \E s \in Sessions, j \in jobs, o \in jobs :
        /\ sess[s].pc = "done"
        /\ sess[s].touched # {}
        /\ sess[s].ret = {j.job_id}
        /\ o.job_id # j.job_id
        /\ j.user_id # sess[s].defaults.user_id
        /\ j.updated_at > j.created_at
        /\ \E t \in sess[s].touched : j.updated_at = t[2]

\* the kinds of the override table
OverrideKinds ==
    {"ms.mail_triage", "pd.inbox_lead_actions", "pd.mail_lead",
     "pd.thread_summary_to_pd", "g.gmail_summarize", "g.gmail_draft_reply"}

\* C21: choose_model(quality_floor, integration_kind) returns a local model
\* name for every floor and every kind, None and unknown kinds included:
\* MODEL_TRIAGE_PRIMARY for the kinds of the override table whatever the
\* floor, otherwise "tinyllama" when quality_floor <= 2 and "phi3:mini" when
\* quality_floor > 2.
SelectionTotalAndLocal ==
    /\ sel.pc \in {"args", "returned"}
    /\ sel.pc = "returned" =>
          /\ sel.model \in {MODEL_TRIAGE_PRIMARY, "tinyllama", "phi3:mini"}
          /\ sel.integration_kind \in OverrideKinds =>
                sel.model = MODEL_TRIAGE_PRIMARY
          /\ sel.integration_kind \notin OverrideKinds /\ sel.quality_floor <= 2 =>
                sel.model = "tinyllama"
          /\ sel.integration_kind \notin OverrideKinds /\ sel.quality_floor > 2 =>
                sel.model = "phi3:mini"

\* a kind of the override table asked for with a low floor
SelectionOverrideWitness ==
    /\ sel.pc = "returned"
    /\ sel.integration_kind = "g.gmail_draft_reply"
    /\ sel.quality_floor = 1
    /\ sel.model = MODEL_TRIAGE_PRIMARY

\* the limiter answered a call in this step
Answered == limiter'.calls = limiter.calls + 1

\* C30: RateLimiter.allow: when enabled, no key is granted more than
\* reqs_per_min calls in one window; a denied call leaves the counters as
\* they were and returns a retry delay in (0, window]; a call for one key
\* leaves every other key's counts alone; when disabled, every call is
\* allowed and the counters do not change.
RateLimiterBoundsEachWindow ==
    [][Answered =>
          /\ limiter.enabled =>
                \A b \in DOMAIN limiter.granted :
                    limiter'.granted[b] <= limiter.reqs
          /\ ~limiter'.last.allowed =>
                /\ limiter'.bucket = limiter.bucket
                /\ limiter'.last.retry > 0
                /\ limiter'.last.retry <= WINDOW
          /\ \A b \in DOMAIN limiter.bucket :
                b[1] # limiter'.last.key =>
                    limiter'.bucket[b] = limiter.bucket[b]
          /\ ~limiter.enabled =>
                /\ limiter'.last.allowed
                /\ limiter'.bucket = limiter.bucket
      ]_vars

\* at the end of the second window a key that used its two calls is denied
\* with one second to wait, after another key was served
RateLimiterDeniedWitness ==
    /\ limiter.enabled
    /\ limiter.reqs = MaxReqs
    /\ ~limiter.last.allowed
    /\ limiter.last.retry = 1
    /\ limiter.granted[<<limiter.last.key, window_start(limiter.now)>>] = MaxReqs
    /\ \E b \in DOMAIN limiter.granted :
          b[1] # limiter.last.key /\ limiter.granted[b] > 0

\* C22 (as claimed): a hosted adapter whose credential is absent fails before
\* any upstream request is sent, with an error that is not one it raises for
\* a timeout or an upstream failure.
MissingKeyFailsBeforeRequest ==
    (adapter.pc = "done" /\ adapter.provider \in HostedProviders
       /\ ~adapter.has_key) =>
        /\ adapter.result.kind = "raised"
        /\ adapter.requests = << >>
        /\ adapter.result.error \notin UpstreamErrors(adapter.provider)

\* C23 (as claimed): a successful complete returns a token-usage pair, and
\* when the upstream leaves usage out the pair is the estimator's numbers
\* for the request.
MissingUsageIsEstimated ==
    (adapter.result.kind = "returned" /\ adapter.usage = {}) =>
        LET e == estimate_tokens(adapter.provider, adapter.model,
                                 adapter.prompt, adapter.max_tokens)
        IN  /\ adapter.result.tokens_in = e.tokens_in
            /\ adapter.result.tokens_out = e.tokens_out

GenerateSent ==
    \E i \in DOMAIN adapter.requests : adapter.requests[i] = "POST /api/generate"

\* the model the ordering of the claim names
Reconciled(req, available) ==
    IF req \in TagsOf(available) THEN {req}
    ELSE IF req # << >> /\ HasDot(req)
              /\ PrefixBeforeDot(req) \in TagsOf(available)
      THEN {PrefixBeforeDot(req)}
    ELSE IF req # << >> /\ get_close_matches(req, available) # {}
      THEN get_close_matches(req, available)
    ELSE {available[1]}

\* C24 (as claimed): the local adapter sends the installed requested tag
\* unchanged, otherwise the installed prefix before the version separator,
\* otherwise the closest fuzzy match at or above the threshold, otherwise
\* the first available tag; the model sent is installed whenever a model is
\* installed, and the adapter fails without a generate request only when no
\* model is installed.
ReconciliationNeverFailsOnInstalled ==
    (adapter.pc = "done" /\ adapter.provider = "ollama") =>
        /\ GenerateSent =>
              /\ adapter.chosen = Reconciled(adapter.model, adapter.installed)
              /\ adapter.chosen \subseteq TagsOf(adapter.installed)
        /\ ~GenerateSent => adapter.installed = << >>

\* C24 (amended): as above, except that the adapter fails without a generate
\* request only when no model is installed or the request that lists the
\* installed tags itself failed; with the tags listed and a model installed
\* a generate request is always sent.
ReconciliationFailsOnlyWithoutTags ==
    (adapter.pc = "done" /\ adapter.provider = "ollama") =>
        /\ GenerateSent =>
              /\ adapter.chosen = Reconciled(adapter.model, adapter.installed)
              /\ adapter.chosen \subseteq TagsOf(adapter.installed)
        /\ ~GenerateSent =>
              adapter.installed = << >> \/ adapter.tags_reply # "ok"
        /\ (adapter.tags_reply = "ok" /\ adapter.installed # << >>) =>
              GenerateSent

\* phi3.1 is asked for where phi3 and phi3.5 are installed: the prefix is
\* sent, although phi3.5 is the closer string
ReconciliationPrefixWitness ==
    /\ adapter.pc = "done"
    /\ adapter.provider = "ollama"
    /\ adapter.model = phi3_1
    /\ adapter.installed = <<phi3, phi3_5>>
    /\ Closer(phi3_5, phi3, phi3_1)
    /\ GenerateSent
    /\ adapter.chosen = {phi3}
====
